---- MODULE Spec2Model ----
(***************************************************************************)
(* Hyundai actuation controller (selfdrive/car/hyundai/carcontroller.py)   *)
(* and the part of the car interface (selfdrive/car/hyundai/interface.py)  *)
(* that feeds it.  One control cycle is CarInterface.update followed by    *)
(* CarInterface.apply, which calls CarController.update and advances the   *)
(* frame counter.                                                          *)
(*                                                                         *)
(* Numbers.  Floats are held as integers in hundredths: actuators.steer,   *)
(* actuators.gas, actuators.brake and accel_steady in 1/100, accelerations *)
(* in 1/100 m/s^2, speeds in 1/100 m/s.  Torques, angles (degrees), bus    *)
(* indices and counters are the program's own integers.                    *)
(***************************************************************************)
EXTENDS Integers, Sequences, FiniteSets, TLC

VARIABLES
  pc,                      \* "update": CarInterface.update is next; "apply": CarInterface.apply is next;
                           \* "raised": CarInterface.apply was left by an exception
  frame,                   \* CarInterface.frame
  cfg,                     \* CarParams / CarState bus layout / Params flags, fixed at construction
  out,                     \* CS.out: the snapshot CarInterface.update publishes
  accel_steady,            \* CarController.accel_steady
  apply_steer_last,        \* CarController.apply_steer_last
  apply_accel_last,        \* CarController.apply_accel_last
  steer_rate_limited,      \* CarController.steer_rate_limited
  lkas11_cnt,              \* CarController.lkas11_cnt
  scc12_cnt,               \* CarController.scc12_cnt
  resume_cnt,              \* CarController.resume_cnt
  last_lead_distance,      \* CarController.last_lead_distance
  resume_wait_timer,       \* CarController.resume_wait_timer
  turning_signal_timer,    \* CarController.turning_signal_timer
  turning_indicator_alert, \* CarController.turning_indicator_alert (set and cleared by the interface)
  low_speed_alert,         \* CarInterface.low_speed_alert
  cs,                      \* the CarState fields and common events the last CarInterface.update read
  controls,                \* the fields of the controls object CarController.update writes
  can_sends,               \* the message list the last CarController.update returned
  log,                     \* arguments and locals of the last CarController.update call
  hist                     \* history: counter seeds, pairs emitted, presses of the current burst

vars == <<pc, frame, cfg, out, accel_steady, apply_steer_last, apply_accel_last,
          steer_rate_limited, lkas11_cnt, scc12_cnt, resume_cnt, last_lead_distance,
          resume_wait_timer, turning_signal_timer, turning_indicator_alert,
          low_speed_alert, cs, controls, can_sends, log, hist>>

---------------------------------------------------------------------------
(* Bounds of the model *)

\* CarInterface.apply is not taken once frame reaches MaxFrame
MaxFrame == 20

\* the cycles counted since the last blinker cycle: one more than the countdown
\* and the cycle after it
SinceCap == 52

---------------------------------------------------------------------------
(* Program constants *)

\* CarControllerParams, in 1/100
ACCEL_HYST_GAP == 2
ACCEL_MAX == 150
ACCEL_MIN == -400
ACCEL_SCALE == IF ACCEL_MAX > -ACCEL_MIN THEN ACCEL_MAX ELSE -ACCEL_MIN

\* SteerLimitParams
STEER_MAX == 409
STEER_DELTA_UP == 3
STEER_DELTA_DOWN == 5
STEER_DRIVER_ALLOWANCE == 50
STEER_DRIVER_MULTIPLIER == 2
STEER_DRIVER_FACTOR == 1

\* 0.5 / DT_CTRL: cycles the blinker keeps low-speed steering disabled
TURNING_SIGNAL_CYCLES == 50

\* lateral_planner.LANE_CHANGE_SPEED_MIN (45 mph), in 1/100 m/s
LANE_CHANGE_SPEED_MIN == 2012

\* moduli of the lkas11 and scc12 counters (0x10, 0xF)
LKAS11_MOD == 16
SCC12_MOD == 15

\* presses of one auto-resume burst
RESUME_BURST == 8

\* values.Buttons
Buttons == [NONE |-> 0, RES_ACCEL |-> 1, SET_DECEL |-> 2, GAP_DIST |-> 3, CANCEL |-> 4]

\* the cars process_hud_alert gives lane-departure code 1
GenesisFamily == {"GENESIS", "GENESIS_G70", "GENESIS_G80", "GENESIS_G90", "GENESIS_G90_L"}

---------------------------------------------------------------------------
(* Helpers of common.numpy_fast and the Python built-ins the code uses *)

Abs(x) == IF x < 0 THEN -x ELSE x

Min2(a, b) == IF a < b THEN a ELSE b

Max2(a, b) == IF a > b THEN a ELSE b

\* numpy_fast.clip
clip(x, lo, hi) == Max2(lo, Min2(hi, x))

\* Python round(n / d) for d > 0: to the nearest integer, ties to the even one
PyRound(n, d) ==
  LET q == n \div d
      r == n % d
  IN  IF 2 * r < d THEN q
      ELSE IF 2 * r > d THEN q + 1
      ELSE IF q % 2 = 0 THEN q ELSE q + 1

\* v < k * CV.KPH_TO_MS for a speed v in 1/100 m/s (KPH_TO_MS = 1 / 3.6)
BelowKph(v, k) == 36 * v < 1000 * k

---------------------------------------------------------------------------
(* Pure functions of carcontroller.py *)

\* the hysteresis comparing against the steady value itself, without the gap
accel_hysteresis_no_gap(accel, steady) ==
  LET s == IF accel > steady THEN accel - ACCEL_HYST_GAP
           ELSE IF accel < steady THEN accel + ACCEL_HYST_GAP
           ELSE steady
  IN  [accel |-> s, accel_steady |-> s]

\* accel_hysteresis(accel, accel_steady) -> (accel, accel_steady)
accel_hysteresis(accel, steady) ==
  LET s == IF accel > steady + ACCEL_HYST_GAP THEN accel - ACCEL_HYST_GAP
           ELSE IF accel < steady - ACCEL_HYST_GAP THEN accel + ACCEL_HYST_GAP
           ELSE steady
  IN  [accel |-> s, accel_steady |-> s]

\* apply_accel after scaling and clipping; a is in 1/100, the result in 1/100 m/s^2
ScaleClipAccel(a) == clip((a * ACCEL_SCALE) \div 100, ACCEL_MIN, ACCEL_MAX)

\* process_hud_alert with the left lane tested before the both-lanes case
process_hud_alert_left_first(enabled, fingerprint, visual_alert, left_lane, right_lane, left_lane_depart, right_lane_depart) ==
  LET sys_warning == (visual_alert = "steerRequired")
      sys_state ==
        IF left_lane THEN 5
        ELSE IF (left_lane /\ right_lane) \/ sys_warning
          THEN (IF enabled \/ sys_warning THEN 3 ELSE 4)
        ELSE IF right_lane THEN 6
        ELSE 1
      code == IF fingerprint \in GenesisFamily THEN 1 ELSE 2
  IN  [sys_warning |-> sys_warning,
       sys_state |-> sys_state,
       left_lane_warning |-> IF left_lane_depart THEN code ELSE 0,
       right_lane_warning |-> IF right_lane_depart THEN code ELSE 0]

\* process_hud_alert -> (sys_warning, sys_state, left_lane_warning, right_lane_warning);
\* visual_alert is a VisualAlert by name
process_hud_alert(enabled, fingerprint, visual_alert, left_lane, right_lane, left_lane_depart, right_lane_depart) ==
  LET sys_warning == (visual_alert = "steerRequired")
      sys_state ==
        IF (left_lane /\ right_lane) \/ sys_warning
          THEN (IF enabled \/ sys_warning THEN 3 ELSE 4)
        ELSE IF left_lane THEN 5
        ELSE IF right_lane THEN 6
        ELSE 1
      code == IF fingerprint \in GenesisFamily THEN 1 ELSE 2
  IN  [sys_warning |-> sys_warning,
       sys_state |-> sys_state,
       left_lane_warning |-> IF left_lane_depart THEN code ELSE 0,
       right_lane_warning |-> IF right_lane_depart THEN code ELSE 0]

\* new_steer = int(round(actuators.steer * STEER_MAX)); steer is in 1/100
NewSteer(steer) == PyRound(steer * STEER_MAX, 100)

\* selfdrive.car.apply_std_steer_torque_limits(apply_torque, apply_torque_last,
\* driver_torque, SteerLimitParams)
apply_std_steer_torque_limits(apply_torque, apply_torque_last, driver_torque) ==
  LET driver_max_torque ==
        STEER_MAX + (STEER_DRIVER_ALLOWANCE + driver_torque * STEER_DRIVER_FACTOR)
                    * STEER_DRIVER_MULTIPLIER
      driver_min_torque ==
        -STEER_MAX + (-STEER_DRIVER_ALLOWANCE + driver_torque * STEER_DRIVER_FACTOR)
                     * STEER_DRIVER_MULTIPLIER
      max_steer_allowed == Max2(Min2(STEER_MAX, driver_max_torque), 0)
      min_steer_allowed == Min2(Max2(-STEER_MAX, driver_min_torque), 0)
      t == clip(apply_torque, min_steer_allowed, max_steer_allowed)
  IN  IF apply_torque_last > 0
        THEN clip(t, Max2(apply_torque_last - STEER_DELTA_DOWN, -STEER_DELTA_UP),
                  apply_torque_last + STEER_DELTA_UP)
        ELSE clip(t, apply_torque_last - STEER_DELTA_UP,
                  Min2(apply_torque_last + STEER_DELTA_DOWN, STEER_DELTA_UP))

\* the limiter called with the request in place of the previous applied torque
LimitSteerNoLast(new_steer, steer_last, driver_torque) ==
  apply_std_steer_torque_limits(new_steer, new_steer, driver_torque)

\* the call of the limiter in CarController.update
LimitSteer(new_steer, steer_last, driver_torque) ==
  apply_std_steer_torque_limits(new_steer, steer_last, driver_torque)

\* the gate without the enabled flag
LkasActiveNoEnabled(enabled, angle, vEgo, alert) ==
  LET a0 == Abs(angle) < cfg.maxSteeringAngleDeg
      a1 == IF BelowKph(vEgo, 60) /\ cfg.car_fingerprint = "GENESIS" /\ cfg.mdps_bus = 0
              THEN FALSE ELSE a0
  IN  IF alert /\ BelowKph(vEgo, 2) THEN FALSE ELSE a1

\* lkas_active as CarController.update decides it (the lateral gate)
LkasActive(enabled, angle, vEgo, alert) ==
  LET a0 == enabled /\ Abs(angle) < cfg.maxSteeringAngleDeg
      a1 == IF BelowKph(vEgo, 60) /\ cfg.car_fingerprint = "GENESIS" /\ cfg.mdps_bus = 0
              THEN FALSE ELSE a0
  IN  IF alert /\ BelowKph(vEgo, 2) THEN FALSE ELSE a1

\* apply_steer after the gate
\* the torque with the limiter's output kept when steering is not active
GateSteerKeep(lkas_active, limited) == limited

GateSteer(lkas_active, limited) == IF lkas_active THEN limited ELSE 0

\* turning_signal_timer after one CarController.update
TurningSignalTimer(blinker, timer) ==
  LET t == IF blinker THEN TURNING_SIGNAL_CYCLES ELSE timer
  IN  IF t > 0 THEN t - 1 ELSE t

\* the counters as seeded on frame 0 (before the increment and the modulo)
SeedLkas11(f, cur, echo) == IF f = 0 THEN echo ELSE cur

\* the scc12 seed taken as the echoed value itself
SeedScc12NoInc(f, cur, echo) ==
  IF f = 0 THEN (IF ~cfg.no_radar THEN echo ELSE 0) ELSE cur

SeedScc12(f, cur, echo) ==
  IF f = 0 THEN (IF ~cfg.no_radar THEN echo + 1 ELSE 0) ELSE cur

\* the lkas11 counter incremented without the modulo
NextLkas11NoWrap(c) == c + 1

\* self.lkas11_cnt = (self.lkas11_cnt + 1) % 0x10
NextLkas11(c) == (c + 1) % LKAS11_MOD

\* the scc12 counter reduced with the modulus of lkas11
ModScc12Wide(c) == c % LKAS11_MOD

\* self.scc12_cnt %= 0xF
ModScc12(c) == c % SCC12_MOD

\* self.scc12_cnt += 1, after a pair was sent
AfterPairScc12(c, sent) == IF sent THEN c + 1 ELSE c

---------------------------------------------------------------------------
(* The codec of hyundaican: a message is the record of the arguments the   *)
(* controller hands over, with the bus it is sent on                       *)

create_lkas11(f, apply_steer, lkas_active, hud, enabled, bus) ==
  [msg |-> "lkas11", bus |-> bus, frame |-> f, steer |-> apply_steer,
   active |-> lkas_active, hud |-> hud, enabled |-> enabled]

create_clu11(cnt, bus, button, speed) ==
  [msg |-> "clu11", bus |-> bus, cnt |-> cnt, button |-> button, speed |-> speed]

create_scc12(apply_accel, enabled, cnt, scc_live) ==
  [msg |-> "scc12", bus |-> 0, accel |-> apply_accel, enabled |-> enabled,
   cnt |-> cnt, scc_live |-> scc_live]

create_scc11(f, enabled, scc_live) ==
  [msg |-> "scc11", bus |-> 0, frame |-> f, enabled |-> enabled, scc_live |-> scc_live]

create_scc13 == [msg |-> "scc13", bus |-> 0]

create_scc14(enabled) == [msg |-> "scc14", bus |-> 0, enabled |-> enabled]

create_mdps12(f) == [msg |-> "mdps12", bus |-> cfg.mdps_bus, frame |-> f]

create_lfahda_mfc(enabled) == [msg |-> "lfahda_mfc", bus |-> 0, enabled |-> enabled]

---------------------------------------------------------------------------
(* The message list of one CarController.update, part by part, in the order *)
(* of the code                                                              *)

\* lkas11 on bus 0, and on bus 1 if mdps or scc is on bus 1
Lkas11Msgs(f, apply_steer, lkas_active, hud, enabled) ==
  <<create_lkas11(f, apply_steer, lkas_active, hud, enabled, 0)>>
  \o (IF cfg.mdps_bus # 0 \/ cfg.scc_bus = 1
        THEN <<create_lkas11(f, apply_steer, lkas_active, hud, enabled, 1)>>
        ELSE <<>>)

\* enabled_speed, the speed shown on the cluster
EnabledSpeed(clu11_speed, lkas_active, is_set_speed_in_mph) ==
  LET e == IF is_set_speed_in_mph THEN 38 ELSE 60
  IN  IF clu11_speed > e \/ ~lkas_active THEN clu11_speed ELSE e

\* clu11 to mdps if it is not on bus 0
ClusterMsgs(f, enabled_speed) ==
  IF f % 2 # 0 /\ cfg.mdps_bus # 0
    THEN <<create_clu11((f \div 2) % 16, cfg.mdps_bus, Buttons.NONE, enabled_speed)>>
    ELSE <<>>

\* the cancel button press
CancelMsgs(f, pcm_cancel_cmd, clu11_speed) ==
  IF pcm_cancel_cmd /\ (cfg.longcontrol /\ ~cfg.mad_mode_enabled)
    THEN <<create_clu11(f % 16, cfg.scc_bus, Buttons.CANCEL, clu11_speed)>>
    ELSE <<>>

\* the auto-resume step with the burst one press too long
ResumeStepLongBurst(standstill, lead_distance, smoother_active, wait_count, cnt, last, timer) ==
  LET keep == [press |-> FALSE, cnt |-> cnt, last |-> last, timer |-> timer, set |-> FALSE]
  IN  IF standstill
        THEN IF last = 0
               THEN [keep EXCEPT !.last = lead_distance, !.cnt = 0, !.timer = 0]
             ELSE IF smoother_active THEN keep
             ELSE IF timer > 0 THEN [keep EXCEPT !.timer = timer - 1]
             ELSE IF lead_distance # last
               THEN IF cnt + 1 > RESUME_BURST
                      THEN [keep EXCEPT !.press = TRUE, !.cnt = 0,
                                        !.timer = wait_count, !.set = TRUE]
                      ELSE [keep EXCEPT !.press = TRUE, !.cnt = cnt + 1]
             ELSE keep
      ELSE IF last # 0 THEN [keep EXCEPT !.last = 0]
      ELSE keep

\* the auto-resume step with the cooldown counting down faster than a cycle at a time
ResumeStepFastCooldown(standstill, lead_distance, smoother_active, wait_count, cnt, last, timer) ==
  LET keep == [press |-> FALSE, cnt |-> cnt, last |-> last, timer |-> timer, set |-> FALSE]
  IN  IF standstill
        THEN IF last = 0
               THEN [keep EXCEPT !.last = lead_distance, !.cnt = 0, !.timer = 0]
             ELSE IF smoother_active THEN keep
             ELSE IF timer > 0 THEN [keep EXCEPT !.timer = Max2(timer - 2, 0)]
             ELSE IF lead_distance # last
               THEN IF cnt + 1 >= RESUME_BURST
                      THEN [keep EXCEPT !.press = TRUE, !.cnt = 0,
                                        !.timer = wait_count, !.set = TRUE]
                      ELSE [keep EXCEPT !.press = TRUE, !.cnt = cnt + 1]
             ELSE keep
      ELSE IF last # 0 THEN [keep EXCEPT !.last = 0]
      ELSE keep

\* the standstill auto-resume step: whether a press is sent, the fields after it,
\* and whether the cooldown was set
ResumeStep(standstill, lead_distance, smoother_active, wait_count, cnt, last, timer) ==
  LET keep == [press |-> FALSE, cnt |-> cnt, last |-> last, timer |-> timer, set |-> FALSE]
  IN  IF standstill
        THEN IF last = 0
               THEN [keep EXCEPT !.last = lead_distance, !.cnt = 0, !.timer = 0]
             ELSE IF smoother_active THEN keep
             ELSE IF timer > 0 THEN [keep EXCEPT !.timer = timer - 1]
             ELSE IF lead_distance # last
               THEN IF cnt + 1 >= RESUME_BURST
                      THEN [keep EXCEPT !.press = TRUE, !.cnt = 0,
                                        !.timer = wait_count, !.set = TRUE]
                      ELSE [keep EXCEPT !.press = TRUE, !.cnt = cnt + 1]
             ELSE keep
      ELSE IF last # 0 THEN [keep EXCEPT !.last = 0]
      ELSE keep

\* the resume button press, carrying resume_cnt as it was before the step
ResumeMsgs(press, cnt, clu11_speed) ==
  IF press THEN <<create_clu11(cnt, cfg.scc_bus, Buttons.RES_ACCEL, clu11_speed)>>
  ELSE <<>>

\* mdps12 to LKAS
Mdps12Msgs(f) == IF cfg.mdps_bus # 0 THEN <<create_mdps12(f)>> ELSE <<>>

\* the scc gate without the longcontrol condition
SendSccNoLongcontrol(f, cruiseState_enabled) ==
  cruiseState_enabled /\ (cfg.scc_bus # 0 \/ ~cfg.scc_live) /\ f % 2 = 0

\* send scc to car if longcontrol enabled and SCC not on bus 0 or not live
SendScc(f, cruiseState_enabled) ==
  cfg.longcontrol /\ cruiseState_enabled /\ (cfg.scc_bus # 0 \/ ~cfg.scc_live) /\ f % 2 = 0

\* scc12, scc11 and the extensions
SccMsgs(f, send, accel, enabled, cnt) ==
  IF send
    THEN <<create_scc12(accel, enabled, cnt, cfg.scc_live),
           create_scc11(f, enabled, cfg.scc_live)>>
         \o (IF cfg.has_scc13 /\ f % 20 = 0 THEN <<create_scc13>> ELSE <<>>)
         \o (IF cfg.has_scc14 THEN <<create_scc14(enabled)>> ELSE <<>>)
    ELSE <<>>

\* 20 Hz LFA MFA message
LfaMsgs(f, enabled) ==
  IF f % 5 = 0 /\ cfg.send_lfa_mfa THEN <<create_lfahda_mfc(enabled)>> ELSE <<>>

\* the controls fields with apply_accel written after the fusion
UpdateControlsAfterFusion(c, apply_accel, aReq, fused, fused_accel, lead_drel) ==
  [apply_accel |-> IF fused THEN fused_accel ELSE apply_accel,
   aReqValue |-> aReq,
   aReqValueMin |-> IF aReq < c.aReqValueMin THEN aReq ELSE c.aReqValueMin,
   aReqValueMax |-> IF aReq > c.aReqValueMax THEN aReq ELSE c.aReqValueMax,
   fused_accel |-> IF fused THEN fused_accel ELSE c.fused_accel,
   lead_drel |-> IF fused THEN lead_drel ELSE c.lead_drel]

\* the fields CarController.update writes to the controls object c: apply_accel and
\* the aReqValue range in every cycle, fused_accel and lead_drel when
\* get_fused_accel returned
UpdateControls(c, apply_accel, aReq, fused, fused_accel, lead_drel) ==
  [apply_accel |-> apply_accel,
   aReqValue |-> aReq,
   aReqValueMin |-> IF aReq < c.aReqValueMin THEN aReq ELSE c.aReqValueMin,
   aReqValueMax |-> IF aReq > c.aReqValueMax THEN aReq ELSE c.aReqValueMax,
   fused_accel |-> IF fused THEN fused_accel ELSE c.fused_accel,
   lead_drel |-> IF fused THEN lead_drel ELSE c.lead_drel]

\* can_sends with the mdps12 message after the scc messages
CanSendsMdpsAfterScc(lkas, cluster, cancel, resume, mdps, scc, lfa) ==
  lkas \o cluster \o cancel \o resume \o scc \o mdps \o lfa

\* can_sends as CarController.update returns it
CanSends(lkas, cluster, cancel, resume, mdps, scc, lfa) ==
  lkas \o cluster \o cancel \o resume \o mdps \o scc \o lfa

---------------------------------------------------------------------------
(* CarInterface.update: alerts, button events, events *)

\* the record r with the fields of o in place of its own
Override(r, o) == [k \in DOMAIN r |-> IF k \in DOMAIN o THEN o[k] ELSE r[k]]

\* what CarState.update and create_common_events give when nothing happens:
\* speeds in 1/100 m/s, button codes as in Buttons, events by name
NoCarState ==
  [vEgo |-> 0, leftBlinker |-> FALSE, rightBlinker |-> FALSE,
   cruise_buttons |-> 0, prev_cruise_buttons |-> 0,
   cruise_main_button |-> 0, prev_cruise_main_button |-> 0,
   cruise_enabled |-> FALSE, cruise_available |-> FALSE, cruise_unavail |-> FALSE,
   common_events |-> {}, injected_events |-> {}]

\* ret.cruiseState.enabled without the mad mode override
ReportedCruiseEnabledRaw(cruise_enabled, cruise_available) == cruise_enabled

\* ret.cruiseState.enabled: mad mode makes it ret.cruiseState.available
ReportedCruiseEnabled(cruise_enabled, cruise_available) ==
  IF cfg.mad_mode_enabled THEN cruise_available ELSE cruise_enabled

\* the turning indicator alert without the countdown
TurningIndicatorAlertBlinkerOnly(blinker, timer, vEgo) ==
  blinker /\ vEgo < LANE_CHANGE_SPEED_MIN - 120

\* turning indicator alert logic
TurningIndicatorAlert(blinker, timer, vEgo) ==
  (blinker \/ timer # 0) /\ vEgo < LANE_CHANGE_SPEED_MIN - 120

\* the low speed steer alert cleared from minSteerSpeed + 0.2 on
LowSpeedAlertNoBand(latched, vEgo) ==
  vEgo < cfg.minSteerSpeed + 20 /\ cfg.minSteerSpeed > 1000

\* low speed steer alert hysteresis logic
LowSpeedAlert(latched, vEgo) ==
  LET set == IF vEgo < cfg.minSteerSpeed + 20 /\ cfg.minSteerSpeed > 1000 THEN TRUE
             ELSE latched
  IN  IF vEgo > cfg.minSteerSpeed + 70 THEN FALSE ELSE set

\* the ButtonType of a cruise button code; the CANCEL branch is commented out
ButtonTypeOf(but) ==
  IF but = Buttons.RES_ACCEL THEN "accelCruise"
  ELSE IF but = Buttons.SET_DECEL THEN "decelCruise"
  ELSE IF but = Buttons.GAP_DIST THEN "gapAdjustCruise"
  ELSE "unknown"

\* ret.buttonEvents with a release event for the old code before the press of a new one
ButtonEventsWithRelease(cruise_buttons, prev_cruise_buttons, main, prev_main) ==
  (IF cruise_buttons # prev_cruise_buttons /\ prev_cruise_buttons # 0
     THEN <<[type |-> ButtonTypeOf(prev_cruise_buttons), pressed |-> FALSE]>>
     ELSE <<>>)
  \o (IF cruise_buttons # prev_cruise_buttons /\ cruise_buttons # 0
        THEN <<[type |-> ButtonTypeOf(cruise_buttons), pressed |-> TRUE]>>
        ELSE <<>>)
  \o (IF main # prev_main
        THEN <<[type |-> "altButton3", pressed |-> main # 0]>>
        ELSE <<>>)

\* ret.buttonEvents
ButtonEvents(cruise_buttons, prev_cruise_buttons, main, prev_main) ==
  (IF cruise_buttons # prev_cruise_buttons
     THEN <<[type |-> ButtonTypeOf(IF cruise_buttons # 0 THEN cruise_buttons
                                   ELSE prev_cruise_buttons),
             pressed |-> cruise_buttons # 0]>>
     ELSE <<>>)
  \o (IF main # prev_main
        THEN <<[type |-> "altButton3", pressed |-> main # 0]>>
        ELSE <<>>)

\* the events before the button handling, with pedalPressed left in under mad mode
InterfaceEventsKeepPedal(common, cruise_unavail, low, alert) ==
  common
    \cup (IF cfg.longcontrol /\ cruise_unavail THEN {"brakeUnavailable"} ELSE {})
    \cup (IF low /\ cfg.mdps_bus = 0 THEN {"belowSteerSpeed"} ELSE {})
    \cup (IF alert THEN {"turningIndicatorOn"} ELSE {})

\* the events before the button handling: the common events, the ones the interface
\* adds, and pedalPressed taken out under mad mode
InterfaceEvents(common, cruise_unavail, low, alert) ==
  LET added == common
                 \cup (IF cfg.longcontrol /\ cruise_unavail THEN {"brakeUnavailable"} ELSE {})
                 \cup (IF low /\ cfg.mdps_bus = 0 THEN {"belowSteerSpeed"} ELSE {})
                 \cup (IF alert THEN {"turningIndicatorOn"} ELSE {})
  IN  IF cfg.mad_mode_enabled THEN added \ {"pedalPressed"} ELSE added

\* the button handling with enable on button down
HandleButtonOnPress(b, events, cruise_enabled) ==
  LET ev == IF b.type = "cancel" /\ b.pressed THEN events \cup {"buttonCancel"} ELSE events
  IN  IF cfg.longcontrol /\ ~cfg.scc_live
        THEN (IF b.type \in {"accelCruise", "decelCruise"} /\ b.pressed
                THEN ev \cup {"buttonEnable"} ELSE ev) \ {"wrongCarMode", "pcmDisable"}
      ELSE IF ~cfg.longcontrol /\ cruise_enabled
        THEN (IF b.type = "decelCruise" /\ b.pressed
                THEN ev \cup {"buttonEnable"} ELSE ev)
      ELSE ev

\* handle button presses: one pass of the loop body for the button event b
HandleButton(b, events, cruise_enabled) ==
  LET ev == IF b.type = "cancel" /\ b.pressed THEN events \cup {"buttonCancel"} ELSE events
  IN  IF cfg.longcontrol /\ ~cfg.scc_live
        THEN (IF b.type \in {"accelCruise", "decelCruise"} /\ ~b.pressed
                THEN ev \cup {"buttonEnable"} ELSE ev) \ {"wrongCarMode", "pcmDisable"}
      ELSE IF ~cfg.longcontrol /\ cruise_enabled
        THEN (IF b.type = "decelCruise" /\ ~b.pressed
                THEN ev \cup {"buttonEnable"} ELSE ev)
      ELSE ev

\* the loop over ret.buttonEvents
RECURSIVE HandleButtons(_, _, _)
HandleButtons(bes, events, cruise_enabled) ==
  IF bes = <<>> THEN events
  ELSE HandleButtons(Tail(bes), HandleButton(Head(bes), events, cruise_enabled),
                     cruise_enabled)

---------------------------------------------------------------------------
(* State after construction *)

\* the arguments of a CarController.update call before any call was made
NoInput ==
  [enabled |-> FALSE, steer |-> 0, gas |-> 0, brake |-> 0, pcm_cancel_cmd |-> FALSE,
   visual_alert |-> "none", left_lane |-> FALSE, right_lane |-> FALSE,
   left_lane_depart |-> FALSE, right_lane_depart |-> FALSE,
   steeringTorque |-> 0, steeringAngleDeg |-> 0, standstill |-> FALSE,
   lead_distance |-> 0, cruiseState_enabled |-> FALSE, lkas11_echo |-> 0,
   scc12_echo |-> 0, aReqValue |-> 0, clu11_speed |-> 0, smoother_active |-> FALSE,
   wait_count |-> 0, fused_accel |-> 0, lead_drel |-> 0, is_set_speed_in_mph |-> FALSE,
   fuse_fails |-> FALSE]

\* CarInterface.__init__ and CarController.__init__ for the configuration c
InitWith(c) ==
  /\ pc = "update"
  /\ frame = 0
  /\ cfg = c
  /\ out = [vEgo |-> 0, leftBlinker |-> FALSE, rightBlinker |-> FALSE,
            cruiseState_enabled |-> FALSE, cruiseState_available |-> FALSE,
            buttonEvents |-> <<>>, handed |-> {}, events |-> {}]
  /\ low_speed_alert = FALSE
  /\ cs = NoCarState
  /\ accel_steady = 0
  /\ apply_steer_last = 0
  /\ apply_accel_last = 0
  /\ steer_rate_limited = FALSE
  /\ lkas11_cnt = 0
  /\ scc12_cnt = 0
  /\ resume_cnt = 0
  /\ last_lead_distance = 0
  /\ resume_wait_timer = 0
  /\ turning_signal_timer = 0
  /\ turning_indicator_alert = FALSE
  /\ controls = [apply_accel |-> 0, aReqValue |-> 0, aReqValueMin |-> 0,
                 aReqValueMax |-> 0, fused_accel |-> 0, lead_drel |-> 0]
  /\ can_sends = <<>>
  /\ log = [ran |-> FALSE, in |-> NoInput, steady_last |-> 0, steer_last |-> 0,
            wait_last |-> 0, cool_before |-> 0, stayed_before |-> FALSE,
            new_steer |-> 0, limited |-> 0, lkas_active |-> FALSE, press |-> FALSE, pair |-> FALSE, set |-> FALSE,
            apply_accel |-> 0, fuse_called |-> FALSE, raised |-> FALSE, timer_last |-> 0,
            first |-> FALSE, gated_before |-> FALSE]
  /\ hist = [lkas_seed |-> 0, scc_seed |-> 0, pairs |-> 0, burst |-> 0, cool_left |-> 0,
             stayed |-> FALSE, since_blinker |-> -1, first_lead |-> 0,
             episode_pressed |-> FALSE]

---------------------------------------------------------------------------
(* Operations *)

\* CarInterface.update for the car state o (the fields of NoCarState that o does
\* not name keep their values there): set the alerts, build the button events and
\* the events, publish the snapshot.  Lines 273-276 leave CP.enableCruise equal to
\* CC.scc_live, which it is from get_params on (line 258).
CarInterfaceUpdate(o) ==
  LET c == Override(NoCarState, o)
      enabled == ReportedCruiseEnabled(c.cruise_enabled, c.cruise_available)
      alert == TurningIndicatorAlert(c.leftBlinker \/ c.rightBlinker,
                                     turning_signal_timer, c.vEgo)
      low == LowSpeedAlert(low_speed_alert, c.vEgo)
      bes == ButtonEvents(c.cruise_buttons, c.prev_cruise_buttons,
                          c.cruise_main_button, c.prev_cruise_main_button)
      handed == HandleButtons(bes, InterfaceEvents(c.common_events, c.cruise_unavail,
                                                   low, alert), enabled)
  IN  /\ pc = "update"
      /\ cs' = c
      /\ turning_indicator_alert' = alert
      /\ low_speed_alert' = low
      /\ out' = [vEgo |-> c.vEgo, leftBlinker |-> c.leftBlinker,
                 rightBlinker |-> c.rightBlinker,
                 cruiseState_enabled |-> enabled,
                 cruiseState_available |-> c.cruise_available,
                 buttonEvents |-> bes, handed |-> handed,
                 events |-> handed \cup c.injected_events]
      /\ pc' = "apply"
      /\ UNCHANGED <<frame, cfg, accel_steady, apply_steer_last, apply_accel_last,
                     steer_rate_limited, lkas11_cnt, scc12_cnt, resume_cnt,
                     last_lead_distance, resume_wait_timer, turning_signal_timer,
                     controls, can_sends, log, hist>>

\* CarController.update(enabled, CS, frame, CC, actuators, pcm_cancel_cmd, ...)
CarControllerUpdate(inp) ==
  LET \* gas and brake
      hy == accel_hysteresis(inp.gas - inp.brake, accel_steady)
      apply_accel == ScaleClipAccel(hy.accel)
      \* steering torque
      new_steer == NewSteer(inp.steer)
      limited == LimitSteer(new_steer, apply_steer_last, inp.steeringTorque)
      lkas_active == LkasActive(inp.enabled, inp.steeringAngleDeg, out.vEgo,
                                turning_indicator_alert)
      apply_steer == GateSteer(lkas_active, limited)
      hud == process_hud_alert(inp.enabled, cfg.car_fingerprint, inp.visual_alert,
                               inp.left_lane, inp.right_lane,
                               inp.left_lane_depart, inp.right_lane_depart)
      \* counters
      lkas_seed == SeedLkas11(frame, lkas11_cnt, inp.lkas11_echo)
      scc_seed == SeedScc12(frame, scc12_cnt, inp.scc12_echo)
      scc_cnt == ModScc12(scc_seed)
      \* auto resume
      rs == ResumeStep(inp.standstill, inp.lead_distance, inp.smoother_active,
                       inp.wait_count, resume_cnt, last_lead_distance, resume_wait_timer)
      \* scc
      \* gate is the condition of line 235; get_fused_accel is called under it and
      \* either returns or raises, and nothing in update catches what it raises
      gate == SendScc(frame, inp.cruiseState_enabled)
      raised == gate /\ inp.fuse_fails
      send == gate /\ ~raised
      sent_accel == IF send THEN inp.fused_accel ELSE apply_accel
      aReq == inp.aReqValue
      \* history: the presses of the burst so far; a burst ends when the cooldown
      \* is set or standstill is left
      burst_base == IF ~log.in.standstill \/ log.set THEN 0 ELSE hist.burst
      \* the first standstill cycle of an episode: the cycle before was not one
      first == inp.standstill /\ ~log.in.standstill
  IN  /\ accel_steady' = hy.accel_steady
      /\ steer_rate_limited' = (new_steer # limited)
      /\ turning_signal_timer' =
           TurningSignalTimer(out.leftBlinker \/ out.rightBlinker, turning_signal_timer)
      /\ apply_accel_last' = apply_accel
      /\ apply_steer_last' = apply_steer
      /\ lkas11_cnt' = NextLkas11(lkas_seed)
      /\ resume_cnt' = rs.cnt
      /\ last_lead_distance' = rs.last
      /\ resume_wait_timer' = rs.timer
      /\ controls' = UpdateControls(controls, apply_accel, aReq, send,
                                     inp.fused_accel, inp.lead_drel)
      /\ scc12_cnt' = AfterPairScc12(scc_cnt, send)
      /\ can_sends' =
           IF raised THEN <<>> ELSE
           CanSends(Lkas11Msgs(frame, apply_steer, lkas_active, hud, inp.enabled),
                    ClusterMsgs(frame, EnabledSpeed(inp.clu11_speed, lkas_active,
                                                    inp.is_set_speed_in_mph)),
                    CancelMsgs(frame, inp.pcm_cancel_cmd, inp.clu11_speed),
                    ResumeMsgs(rs.press, resume_cnt, inp.clu11_speed),
                    Mdps12Msgs(frame),
                    SccMsgs(frame, send, sent_accel, inp.enabled, scc_cnt),
                    LfaMsgs(frame, inp.enabled))
      /\ log' = [ran |-> TRUE, in |-> inp, steady_last |-> accel_steady,
                 steer_last |-> apply_steer_last, wait_last |-> resume_wait_timer,
                 cool_before |-> hist.cool_left, stayed_before |-> hist.stayed,
                 new_steer |-> new_steer,
                 limited |-> limited, lkas_active |-> lkas_active, press |-> rs.press, pair |-> send,
                 set |-> rs.set, apply_accel |-> apply_accel, fuse_called |-> gate,
                 raised |-> raised, timer_last |-> turning_signal_timer,
                 first |-> first, gated_before |-> log.ran /\ ~log.lkas_active]
      /\ hist' =
           [lkas_seed |-> IF frame = 0 THEN lkas_seed ELSE hist.lkas_seed,
            scc_seed |-> IF frame = 0 THEN scc_seed ELSE hist.scc_seed,
            pairs |-> IF send THEN hist.pairs + 1 ELSE hist.pairs,
            burst |-> IF ~inp.standstill THEN 0
                      ELSE IF rs.press THEN burst_base + 1
                      ELSE burst_base,
            cool_left |-> IF ~inp.standstill THEN 0
                          ELSE IF rs.set THEN inp.wait_count
                          ELSE IF hist.cool_left > 0 THEN hist.cool_left - 1
                          ELSE 0,
            stayed |-> IF ~inp.standstill THEN FALSE
                       ELSE IF rs.set THEN TRUE
                       ELSE hist.stayed,
            \* cycles since the last one with a blinker on: -1 before any, SinceCap for
            \* SinceCap or more
            since_blinker |-> IF out.leftBlinker \/ out.rightBlinker THEN 0
                              ELSE IF hist.since_blinker = -1 THEN -1
                              ELSE Min2(hist.since_blinker + 1, SinceCap),
            \* the lead distance of the first standstill cycle of the episode, and
            \* whether a press was emitted in the episode
            first_lead |-> IF first THEN inp.lead_distance
                           ELSE IF ~inp.standstill THEN 0
                           ELSE hist.first_lead,
            episode_pressed |-> IF first \/ ~inp.standstill THEN rs.press
                                ELSE hist.episode_pressed \/ rs.press]

\* CarInterface.apply: run the controller on the published snapshot, advance the frame;
\* what CarController.update raises leaves apply before the frame is advanced
CarInterfaceApply(inp) ==
  /\ pc = "apply"
  /\ CarControllerUpdate(inp)
  /\ frame' = IF log'.raised THEN frame ELSE frame + 1
  /\ pc' = IF log'.raised THEN "raised" ELSE "update"
  /\ UNCHANGED <<cfg, out, turning_indicator_alert, low_speed_alert, cs>>

---------------------------------------------------------------------------
(* Configurations and inputs of the specifications *)

\* CarParams, the bus layout CarState copies from it, and the Params flags:
\* scc_live = not CP.radarOffCan, radarOffCan = (sccBus == -1)
Config(fp, max_angle, mdps, scc, long, mad, s13, s14, lfa) ==
  [car_fingerprint |-> fp, maxSteeringAngleDeg |-> max_angle, mdps_bus |-> mdps,
   scc_bus |-> scc, scc_live |-> (scc # -1), no_radar |-> (scc = -1),
   longcontrol |-> long, mad_mode_enabled |-> mad, has_scc13 |-> s13,
   has_scc14 |-> s14, send_lfa_mfa |-> lfa, minSteerSpeed |-> 0]

\* the inputs that vary as the records of S do and are those of NoInput elsewhere
Inputs(S) == {Override(NoInput, o) : o \in S}

\* speeds in 1/100 m/s: 0.5 (below 2 km/h), 10 (below 60 km/h), 20
Slow == 50
Mid == 1000
Fast == 2000

---------------------------------------------------------------------------
(* SpecSteer: the lateral gate under every kind of input, for a few cycles *)

\* cycles SpecSteer runs
SteerFrames == 4

SteerConfigs ==
  {Config("GENESIS", 90, 0, 0, FALSE, FALSE, FALSE, FALSE, FALSE),
   Config("SONATA", 90, 1, 1, FALSE, FALSE, FALSE, FALSE, TRUE)}

SteerOuts == [vEgo : {Slow, Mid, Fast}, leftBlinker : BOOLEAN, rightBlinker : {FALSE}]

SteerIns ==
  Inputs([enabled : BOOLEAN, steer : {-150, 100}, steeringTorque : {0, 300},
          steeringAngleDeg : {0, -95}])

InitSteer == \E c \in SteerConfigs : InitWith(c)

SteerUpdate == \E o \in SteerOuts : CarInterfaceUpdate(o)

SteerApply == frame < SteerFrames /\ \E inp \in SteerIns : CarInterfaceApply(inp)

NextSteer == SteerUpdate \/ SteerApply

SpecSteer == InitSteer /\ [][NextSteer]_vars

\* the lkas11 messages of the last cycle
Lkas11Sent == {i \in 1..Len(can_sends) : can_sends[i].msg = "lkas11"}

\* C1: in a cycle in which enabled is false, every lkas11 message carries torque 0
\* and the stored previous applied torque is 0
C1_DisabledSteerZero ==
  (log.ran /\ ~log.in.enabled) =>
    /\ apply_steer_last = 0
    /\ \A i \in Lkas11Sent : can_sends[i].steer = 0

\* a disabled cycle entered with torque applied, whose limiter output was not 0,
\* with both lkas11 copies sent
C1_Witness ==
  /\ log.ran /\ ~log.in.enabled
  /\ log.steer_last # 0 /\ log.limited # 0
  /\ Cardinality(Lkas11Sent) = 2

---------------------------------------------------------------------------
(* SpecSteerRun: the rate limiter over a run long enough to reach STEER_MAX *)

\* cycles SpecSteerRun runs: more than STEER_MAX / STEER_DELTA_UP
RunFrames == 140

RunConfigs == {Config("SONATA", 90, 0, 0, FALSE, FALSE, FALSE, FALSE, FALSE)}

RunOuts == [vEgo : {Fast}, leftBlinker : {FALSE}, rightBlinker : {FALSE}]

RunIns == Inputs([enabled : {TRUE}, steer : {-150, 100}, steeringTorque : {0, -300}])

InitRun == \E c \in RunConfigs : InitWith(c)

RunUpdate == \E o \in RunOuts : CarInterfaceUpdate(o)

RunApply == frame < RunFrames /\ \E inp \in RunIns : CarInterfaceApply(inp)

NextRun == RunUpdate \/ RunApply

SpecSteerRun == InitRun /\ [][NextRun]_vars

\* C2: the limiter's output has magnitude at most 409; absent driver override
\* (driver torque within the allowance of 50) its magnitude exceeds that of the
\* previous applied torque by at most 3 and it differs from it by at most 5
C2_RateLimit ==
  log.ran =>
    /\ Abs(log.limited) <= 409
    /\ Abs(log.in.steeringTorque) <= 50 =>
         /\ Abs(log.limited) - Abs(log.steer_last) <= 3
         /\ Abs(log.limited - log.steer_last) <= 5

\* the limiter holds 409 against a request beyond the range, with no driver torque
C2_Witness ==
  /\ log.ran /\ log.in.steeringTorque = 0
  /\ log.new_steer < -409
  /\ log.steer_last = -409 /\ log.limited = -409

---------------------------------------------------------------------------
(* SpecAccel: gas and brake through the hysteresis, the scaling and the clip *)

\* cycles SpecAccel runs
AccelFrames == 4

AccelConfigs == {Config("SONATA", 90, 0, 0, FALSE, FALSE, FALSE, FALSE, FALSE)}

AccelOuts == [vEgo : {Fast}, leftBlinker : {FALSE}, rightBlinker : {FALSE}]

AccelIns == Inputs([enabled : {TRUE}, gas : {0, 3, 30, 99, 100}, brake : {0, 1, 28, 100}])

InitAccel == \E c \in AccelConfigs : InitWith(c)

AccelUpdate == \E o \in AccelOuts : CarInterfaceUpdate(o)

AccelApply == frame < AccelFrames /\ \E inp \in AccelIns : CarInterfaceApply(inp)

NextAccel == AccelUpdate \/ AccelApply

SpecAccel == InitAccel /\ [][NextAccel]_vars

\* C3: the steady value changes in a cycle only if gas - brake differs from it by
\* more than 0.02, and the scaled and clipped command lies in [-4.0, 1.5]
C3_HysteresisAndClip ==
  log.ran =>
    /\ accel_steady # log.steady_last =>
         Abs((log.in.gas - log.in.brake) - log.steady_last) > 2
    /\ apply_accel_last >= -400 /\ apply_accel_last <= 150
    /\ controls.apply_accel = apply_accel_last

\* an input inside the gap leaves the steady value alone while the clip is cutting
C3_Witness ==
  /\ log.ran
  /\ log.in.gas - log.in.brake # log.steady_last
  /\ accel_steady = log.steady_last
  /\ 4 * accel_steady > 150 /\ apply_accel_last = 150

---------------------------------------------------------------------------
(* SpecResume: standstill episodes, the resume bursts and their cooldown *)

\* cycles SpecResume runs: a burst, its cooldown and the press after it
ResumeFrames == 14

\* the values get_wait_count() returns
WaitCounts == {0, 3}

ResumeConfigs == {Config("SONATA", 90, 0, 0, FALSE, FALSE, FALSE, FALSE, FALSE)}

ResumeOuts == [vEgo : {0}, leftBlinker : {FALSE}, rightBlinker : {FALSE}]

ResumeIns ==
  Inputs([enabled : {TRUE}, standstill : BOOLEAN, lead_distance : {0, 4, 5},
          smoother_active : BOOLEAN, wait_count : WaitCounts])

InitResume == \E c \in ResumeConfigs : InitWith(c)

ResumeUpdate == \E o \in ResumeOuts : CarInterfaceUpdate(o)

ResumeApply == frame < ResumeFrames /\ \E inp \in ResumeIns : CarInterfaceApply(inp)

NextResume == ResumeUpdate \/ ResumeApply

SpecResume == InitResume /\ [][NextResume]_vars

\* the resume button presses of the last cycle
ResumeSent ==
  {i \in 1..Len(can_sends) :
     can_sends[i].msg = "clu11" /\ can_sends[i].button = Buttons.RES_ACCEL}

\* C4: at most one resume press per cycle; a burst (the presses of a standstill
\* episode since it began or since the cooldown was last set) has at most 8 presses,
\* the k-th of them carrying counter k - 1; a press is sent only when no cooldown
\* is running
C4_ResumeBursts ==
  log.ran =>
    /\ Cardinality(ResumeSent) <= 1
    /\ ResumeSent # {} => log.in.standstill
    /\ hist.burst <= 8
    /\ \A i \in ResumeSent :
         /\ can_sends[i].cnt = hist.burst - 1
         /\ log.cool_before = 0 /\ log.wait_last = 0

\* the eighth press of a burst, carrying counter 7, sets a cooldown
C4_Witness ==
  /\ log.ran /\ hist.burst = 8
  /\ \E i \in ResumeSent : can_sends[i].cnt = 7
  /\ resume_wait_timer > 0

\* C5 as stated: the cooldown is set to W after the eighth press, no press is sent
\* in the W standstill cycles after it, and while the vehicle stays at standstill
\* the counter goes down by one in every cycle until it is 0
C5_Original ==
  log.ran =>
    /\ log.set => (hist.burst = 8 /\ resume_wait_timer = log.in.wait_count)
    /\ (log.in.standstill /\ log.cool_before > 0) => ResumeSent = {}
    /\ (log.in.standstill /\ log.stayed_before /\ log.wait_last > 0) =>
         resume_wait_timer = log.wait_last - 1

\* C5 amended: the counter goes down by one in every standstill cycle in which the
\* smoother is not active, and keeps its value in those in which it is
C5_Cooldown ==
  log.ran =>
    /\ log.set => (hist.burst = 8 /\ resume_wait_timer = log.in.wait_count)
    /\ (log.in.standstill /\ log.cool_before > 0) => ResumeSent = {}
    /\ (log.in.standstill /\ log.stayed_before /\ log.wait_last > 0) =>
         /\ ResumeSent = {}
         /\ resume_wait_timer =
              IF log.in.smoother_active THEN log.wait_last ELSE log.wait_last - 1

\* the last decrement of a cooldown that the smoother has held beyond its W cycles
C5_Witness ==
  /\ log.ran /\ log.in.standstill /\ log.stayed_before
  /\ ~log.in.smoother_active
  /\ log.cool_before = 0
  /\ log.wait_last = 1 /\ resume_wait_timer = 0

---------------------------------------------------------------------------
(* Spec: the message counters from their seeding on frame 0 *)

\* CR_VSM_Alive and CF_Lkas_MsgCount as echoed on frame 0
SccEchoes == {7, 13, 14, 15}
LkasEchoes == {3, 15}

CounterConfigs ==
  {Config("SONATA", 90, 1, 1, TRUE, FALSE, TRUE, TRUE, TRUE),
   Config("GENESIS", 90, 0, 0, FALSE, TRUE, FALSE, FALSE, FALSE),
   Config("SONATA", 90, 0, -1, TRUE, FALSE, FALSE, TRUE, FALSE)}

CounterOuts == [vEgo : {Fast}, leftBlinker : {FALSE}, rightBlinker : {FALSE}]

\* the echoes are read on frame 0 only
CounterIns(f) ==
  IF f = 0
    THEN Inputs([enabled : {TRUE}, cruiseState_enabled : BOOLEAN,
                 scc12_echo : SccEchoes, lkas11_echo : LkasEchoes])
    ELSE Inputs([enabled : {TRUE}, cruiseState_enabled : BOOLEAN])

Init == \E c \in CounterConfigs : InitWith(c)

CounterUpdate == \E o \in CounterOuts : CarInterfaceUpdate(o)

CounterApply == frame < MaxFrame /\ \E inp \in CounterIns(frame) : CarInterfaceApply(inp)

Next == CounterUpdate \/ CounterApply

Spec == Init /\ [][Next]_vars

\* the scc12 messages of the last cycle
Scc12Sent == {i \in 1..Len(can_sends) : can_sends[i].msg = "scc12"}

\* C6 as stated: with radar present the scc12 counter is seeded on frame 0 with the
\* echoed alive counter, and equals it after frame 0 if no pair was sent
C6_Original ==
  (log.ran /\ frame = 1 /\ ~cfg.no_radar) =>
    /\ hist.scc_seed = log.in.scc12_echo
    /\ Scc12Sent = {} => scc12_cnt = log.in.scc12_echo

\* C6 amended: the seed is the echoed alive counter plus one; after frame 0 the
\* counter is that seed modulo 15 if no pair was sent, and a pair sent on frame 0
\* carries that value
C6_SeedIsEchoPlusOne ==
  (log.ran /\ frame = 1 /\ ~cfg.no_radar) =>
    /\ hist.scc_seed = log.in.scc12_echo + 1
    /\ Scc12Sent = {} => scc12_cnt = (log.in.scc12_echo + 1) % 15
    /\ \A i \in Scc12Sent : can_sends[i].cnt = (log.in.scc12_echo + 1) % 15

\* frame 0 with an echoed 7, longitudinal control off and therefore no pair sent
C6_Witness ==
  /\ log.ran /\ frame = 1 /\ ~cfg.no_radar /\ ~cfg.longcontrol
  /\ log.in.scc12_echo = 7 /\ Scc12Sent = {}
  /\ scc12_cnt = 8

\* C7 as stated: after frame cycles lkas11_cnt is (seed + frame) mod 16, scc12_cnt
\* is (seed + pairs sent) mod 15, and a pair carries the value of that formula
\* before it was sent
C7_Original ==
  log.ran =>
    /\ lkas11_cnt = (hist.lkas_seed + frame) % 16
    /\ scc12_cnt = (hist.scc_seed + hist.pairs) % 15
    /\ \A i \in Scc12Sent : can_sends[i].cnt = (hist.scc_seed + hist.pairs - 1) % 15

\* C7 amended: scc12_cnt is stored unreduced after a pair: it is one more than the
\* value the pair carried (15, not 0, after the pair that carried 14), and
\* (seed + pairs sent) mod 15 after a cycle that sent none
C7_Counters ==
  log.ran =>
    /\ lkas11_cnt = (hist.lkas_seed + frame) % 16
    /\ scc12_cnt = IF Scc12Sent # {}
                     THEN ((hist.scc_seed + hist.pairs - 1) % 15) + 1
                     ELSE (hist.scc_seed + hist.pairs) % 15
    /\ \A i \in Scc12Sent : can_sends[i].cnt = (hist.scc_seed + hist.pairs - 1) % 15

\* both counters have wrapped: the pair that carried 0 was sent after the one that
\* carried 14, and lkas11_cnt has passed 15
C7_Witness ==
  /\ log.ran /\ hist.pairs >= 2
  /\ \E i \in Scc12Sent : can_sends[i].cnt = 0
  /\ hist.scc_seed + hist.pairs > 15
  /\ lkas11_cnt < hist.lkas_seed

---------------------------------------------------------------------------
(* SpecCounters: every counter and timer of the controller moving at once *)

\* cycles SpecCounters runs: a resume burst with its cooldown, and the scc12
\* counter from a seed of 8 to its wrap
AllFrames == 14

AllConfigs == {Config("SONATA", 90, 1, 1, TRUE, FALSE, TRUE, TRUE, TRUE)}

AllOuts == [vEgo : {Slow}, leftBlinker : BOOLEAN, rightBlinker : {FALSE}]

\* moving, or standing behind a lead at one of two distances
AllStandstill ==
  [standstill : {FALSE}, lead_distance : {0}] \cup [standstill : {TRUE}, lead_distance : {4, 5}]

AllIns(f) ==
  {Override(i, s) :
     i \in (IF f = 0
              THEN Inputs([enabled : {TRUE}, cruiseState_enabled : {TRUE},
                           wait_count : {0, 2}, scc12_echo : {7, 13},
                           lkas11_echo : {15}])
              ELSE Inputs([enabled : {TRUE}, cruiseState_enabled : {TRUE},
                           wait_count : {0, 2}])),
     s \in AllStandstill}

InitAll == \E c \in AllConfigs : InitWith(c)

AllUpdate == \E o \in AllOuts : CarInterfaceUpdate(o)

AllApply == frame < AllFrames /\ \E inp \in AllIns(frame) : CarInterfaceApply(inp)

NextAll == AllUpdate \/ AllApply

SpecCounters == InitAll /\ [][NextAll]_vars

\* C8 as stated: at every cycle boundary lkas11_cnt is in 0..15, scc12_cnt in 0..14,
\* the blinker countdown and the resume cooldown are not negative, and the resume
\* press count is at most 8
C8_Original ==
  /\ lkas11_cnt \in 0..15
  /\ scc12_cnt \in 0..14
  /\ turning_signal_timer >= 0
  /\ resume_wait_timer >= 0
  /\ resume_cnt >= 0 /\ resume_cnt <= 8

\* C8 amended: scc12_cnt is in 0..15 at a cycle boundary, 15 only right after the
\* pair that carried 14; the value a pair carries is in 0..14
C8_CounterRanges ==
  /\ lkas11_cnt \in 0..15
  /\ scc12_cnt \in 0..15
  /\ scc12_cnt = 15 => \E i \in Scc12Sent : can_sends[i].cnt = 14
  /\ \A i \in Scc12Sent : can_sends[i].cnt \in 0..14
  /\ turning_signal_timer >= 0
  /\ resume_wait_timer >= 0
  /\ resume_cnt >= 0 /\ resume_cnt <= 8

\* scc12_cnt stored as 15 while the cooldown and the blinker countdown are running
\* and lkas11_cnt has wrapped
C8_Witness ==
  /\ log.ran /\ scc12_cnt = 15 /\ hist.pairs >= 2
  /\ resume_wait_timer > 0
  /\ turning_signal_timer > 0
  /\ lkas11_cnt < hist.lkas_seed

---------------------------------------------------------------------------
(* SpecMsgs: the message list of a cycle under the bus layouts and requests *)

\* cycles SpecMsgs runs: frame 10 is even and a multiple of 5
MsgFrames == 11

MsgConfigs ==
  {Config("SONATA", 90, 1, 1, TRUE, FALSE, TRUE, TRUE, TRUE),
   Config("SONATA", 90, 0, 2, TRUE, FALSE, FALSE, FALSE, FALSE),
   Config("GENESIS", 90, 1, 0, FALSE, TRUE, FALSE, FALSE, TRUE),
   Config("SONATA", 120, 0, -1, TRUE, FALSE, TRUE, FALSE, FALSE)}

MsgOuts == [vEgo : {Fast}, leftBlinker : {FALSE}, rightBlinker : {FALSE}]

MsgIns ==
  {Override(i, s) :
     i \in Inputs([enabled : {TRUE}, cruiseState_enabled : BOOLEAN,
                   pcm_cancel_cmd : BOOLEAN]),
     s \in AllStandstill}

InitMsgs == \E c \in MsgConfigs : InitWith(c)

MsgUpdate == \E o \in MsgOuts : CarInterfaceUpdate(o)

MsgApply == frame < MsgFrames /\ \E inp \in MsgIns : CarInterfaceApply(inp)

NextMsgs == MsgUpdate \/ MsgApply

SpecMsgs == InitMsgs /\ [][NextMsgs]_vars

\* C9: no two messages of the returned list have the same type and the same bus
C9_NoSameTypeSameBus ==
  \A i, j \in 1..Len(can_sends) :
    (i < j /\ can_sends[i].msg = can_sends[j].msg) => can_sends[i].bus # can_sends[j].bus

\* the place of a message in the order C10 states
StatedRank(m) ==
  IF m.msg = "lkas11" THEN (IF m.bus = 0 THEN 0 ELSE 1)
  ELSE IF m.msg = "clu11" /\ m.button = Buttons.NONE THEN 2
  ELSE IF m.msg = "clu11" /\ m.button = Buttons.CANCEL THEN 3
  ELSE IF m.msg = "clu11" THEN 4
  ELSE IF m.msg = "scc12" THEN 5
  ELSE IF m.msg = "scc11" THEN 6
  ELSE IF m.msg = "scc13" THEN 7
  ELSE IF m.msg = "scc14" THEN 8
  ELSE IF m.msg = "mdps12" THEN 9
  ELSE 10

\* the place of a message in the order of the code: mdps12 goes before scc12
CodeRank(m) ==
  IF m.msg = "mdps12" THEN 9
  ELSE IF StatedRank(m) < 5 THEN 2 * StatedRank(m)
  ELSE 2 * StatedRank(m) + 1

\* C10 as stated: lkas11 (bus 0, then bus 1), cluster, cancel, resume, scc12, scc11,
\* scc13, scc14, mdps12, lfahda_mfc
C10_Original ==
  \A i, j \in 1..Len(can_sends) :
    i < j => StatedRank(can_sends[i]) < StatedRank(can_sends[j])

\* C10 amended: lkas11 (bus 0, then bus 1), cluster, cancel, resume, mdps12, scc12,
\* scc11, scc13, scc14, lfahda_mfc
C10_Order ==
  \A i, j \in 1..Len(can_sends) :
    i < j => CodeRank(can_sends[i]) < CodeRank(can_sends[j])

\* a cycle that sends the cancel and resume presses, mdps12, the scc pair and
\* lfahda_mfc together
C10_Witness ==
  /\ \E i \in 1..Len(can_sends) : can_sends[i].msg = "mdps12"
  /\ \E i \in 1..Len(can_sends) : can_sends[i].msg = "lfahda_mfc"
  /\ \E i \in 1..Len(can_sends) :
       can_sends[i].msg = "clu11" /\ can_sends[i].button = Buttons.CANCEL
  /\ ResumeSent # {}
  /\ Scc12Sent # {}

---------------------------------------------------------------------------
(* SpecFusion: the scc gate and the fused accel, with a fusion that returns *)

FusionFrames == 4

\* scc on bus 0 and live; scc on bus 2; scc on bus 2 without longcontrol; no radar
FusionConfigs ==
  {Config("SONATA", 90, 0, 0, TRUE, FALSE, FALSE, FALSE, FALSE),
   Config("SONATA", 90, 0, 2, TRUE, FALSE, FALSE, FALSE, FALSE),
   Config("SONATA", 90, 0, 2, FALSE, FALSE, FALSE, FALSE, FALSE),
   Config("SONATA", 90, 0, -1, TRUE, FALSE, FALSE, FALSE, FALSE)}

FusionOuts == [vEgo : {Fast}, leftBlinker : {FALSE}, rightBlinker : {FALSE}]

FusionIns ==
  Inputs([enabled : {TRUE}, cruiseState_enabled : BOOLEAN, gas : {0, 30},
          brake : {0, 50}, fused_accel : {-123, 77}, lead_drel : {12},
          aReqValue : {20}])

InitFusion == \E c \in FusionConfigs : InitWith(c)

FusionUpdate == \E o \in FusionOuts : CarInterfaceUpdate(o)

FusionApply == frame < FusionFrames /\ \E inp \in FusionIns : CarInterfaceApply(inp)

NextFusion == FusionUpdate \/ FusionApply

SpecFusion == InitFusion /\ [][NextFusion]_vars

Scc11Sent == {i \in 1..Len(can_sends) : can_sends[i].msg = "scc11"}

\* C11: the cycle of frame f = frame - 1 emits scc12 and scc11, and calls
\* get_fused_accel, exactly when longcontrol is on, cruise is enabled, (scc_bus is
\* non-zero or scc is not live) and f is even; without longcontrol it emits neither
\* and never calls get_fused_accel
C11_SccGate ==
  (log.ran /\ pc = "update") =>
    LET f == frame - 1
        cond == /\ cfg.longcontrol
                /\ log.in.cruiseState_enabled
                /\ (cfg.scc_bus # 0 \/ ~cfg.scc_live)
                /\ f % 2 = 0
    IN  /\ (Scc12Sent # {}) <=> cond
        /\ (Scc11Sent # {}) <=> cond
        /\ log.fuse_called <=> cond
        /\ ~cfg.longcontrol => (Scc12Sent = {} /\ Scc11Sent = {} /\ ~log.fuse_called)

\* a cycle that emitted the pair with scc not live, after a cycle that did not
C11_Witness ==
  /\ log.ran /\ pc = "update" /\ frame = 3
  /\ ~cfg.scc_live
  /\ Scc12Sent # {} /\ Scc11Sent # {} /\ log.fuse_called

\* C16: in a cycle where get_fused_accel returned, scc12 carries the fused accel,
\* while accel_steady, apply_accel_last and controls.apply_accel hold what the
\* hysteresis and the clip made of gas - brake
C16_FusedForEmissionOnly ==
  (log.ran /\ log.pair) =>
    LET hy == accel_hysteresis(log.in.gas - log.in.brake, log.steady_last)
        lim == clip((hy.accel * 400) \div 100, -400, 150)
    IN  /\ accel_steady = hy.accel_steady
        /\ apply_accel_last = lim
        /\ controls.apply_accel = lim
        /\ controls.fused_accel = log.in.fused_accel
        /\ \A i \in Scc12Sent : can_sends[i].accel = log.in.fused_accel

\* a cycle whose scc12 carries a fused accel that is not the limiter's value
C16_Witness ==
  /\ log.ran /\ log.pair
  /\ \E i \in Scc12Sent : can_sends[i].accel # apply_accel_last
  /\ controls.apply_accel = apply_accel_last
  /\ apply_accel_last # 0

---------------------------------------------------------------------------
(* SpecFuseFail: cycles in which get_fused_accel may raise *)

FailFrames == 4

FailConfigs ==
  {Config("SONATA", 90, 0, 2, TRUE, FALSE, FALSE, FALSE, FALSE),
   Config("SONATA", 90, 1, 1, TRUE, FALSE, TRUE, TRUE, TRUE),
   Config("SONATA", 90, 0, 0, FALSE, FALSE, FALSE, FALSE, FALSE)}

FailOuts == [vEgo : {Fast}, leftBlinker : {FALSE}, rightBlinker : {FALSE}]

FailIns ==
  Inputs([enabled : {TRUE}, steer : {100}, cruiseState_enabled : BOOLEAN,
          gas : {0, 30}, fused_accel : {77}, fuse_fails : BOOLEAN])

InitFail == \E c \in FailConfigs : InitWith(c)

FailUpdate == \E o \in FailOuts : CarInterfaceUpdate(o)

FailApply == frame < FailFrames /\ \E inp \in FailIns : CarInterfaceApply(inp)

NextFail == FailUpdate \/ FailApply

SpecFuseFail == InitFail /\ [][NextFail]_vars

\* C17: a cycle in which get_fused_accel was called and failed still returns its
\* messages: scc12 with the limiter's clipped accel, lkas11 with the applied torque,
\* and the frame and the scc12 counter advance as in a cycle without failure
C17_FusionFailureFallsBack ==
  (log.ran /\ log.fuse_called /\ log.in.fuse_fails) =>
    /\ pc = "update"
    /\ \E i \in Scc12Sent : can_sends[i].accel = log.apply_accel
    /\ Lkas11Sent # {}
    /\ \A i \in Lkas11Sent : can_sends[i].steer = apply_steer_last
    /\ scc12_cnt > 0

---------------------------------------------------------------------------
(* SpecButtons: CarInterface.update over button edges, cruise flags and modes *)

\* cycles SpecButtons runs
ButtonFrames == 1

\* longcontrol without radar (scc not live), longcontrol with scc live,
\* no longcontrol, no longcontrol under mad mode, longcontrol without radar under mad mode
ButtonConfigs ==
  {Config("SONATA", 90, 0, -1, TRUE, FALSE, FALSE, FALSE, FALSE),
   Config("SONATA", 90, 0, 0, TRUE, FALSE, FALSE, FALSE, FALSE),
   Config("SONATA", 90, 0, 0, FALSE, FALSE, FALSE, FALSE, FALSE),
   Config("SONATA", 90, 0, 0, FALSE, TRUE, FALSE, FALSE, FALSE),
   Config("SONATA", 90, 0, -1, TRUE, TRUE, FALSE, FALSE, FALSE)}

ButtonCodes == {Buttons.NONE, Buttons.RES_ACCEL, Buttons.SET_DECEL, Buttons.GAP_DIST,
                Buttons.CANCEL}

CommonEvents == {{}, {"pedalPressed"}, {"pedalPressed", "wrongCarMode", "pcmDisable"}}

ButtonStates ==
  [vEgo : {Fast}, cruise_buttons : ButtonCodes, prev_cruise_buttons : ButtonCodes,
   cruise_main_button : {0, 1}, cruise_enabled : BOOLEAN, cruise_available : BOOLEAN,
   common_events : CommonEvents]

ButtonIns == Inputs([enabled : {TRUE}])

InitButtons == \E c \in ButtonConfigs : InitWith(c)

ButtonUpdate == frame < ButtonFrames /\ \E o \in ButtonStates : CarInterfaceUpdate(o)

ButtonApply == \E inp \in ButtonIns : CarInterfaceApply(inp)

NextButtons == ButtonUpdate \/ ButtonApply

SpecButtons == InitButtons /\ [][NextButtons]_vars

\* CarInterface.update has run and CarInterface.apply has not run since
Updated == pc = "apply"

\* the combined button code went from a non-zero code to 0
ReleaseEdge == cs.cruise_buttons = 0 /\ cs.prev_cruise_buttons # 0

\* C12: the events handed on hold buttonEnable exactly on a release edge of
\* (a) RES_ACCEL or SET_DECEL with longcontrol on and scc not live, or
\* (b) SET_DECEL with longcontrol off and cruise reported enabled
C12_EnableOnRelease ==
  Updated =>
    ("buttonEnable" \in out.handed <=>
       /\ ReleaseEdge
       /\ \/ /\ cs.prev_cruise_buttons \in {Buttons.RES_ACCEL, Buttons.SET_DECEL}
             /\ cfg.longcontrol /\ ~cfg.scc_live
          \/ /\ cs.prev_cruise_buttons = Buttons.SET_DECEL
             /\ ~cfg.longcontrol /\ out.cruiseState_enabled)

\* a release of SET_DECEL without longcontrol and with cruise enabled requested enable
C12_Witness ==
  /\ Updated /\ ReleaseEdge
  /\ cs.prev_cruise_buttons = Buttons.SET_DECEL
  /\ ~cfg.longcontrol /\ ~cfg.mad_mode_enabled /\ cs.cruise_enabled
  /\ "buttonEnable" \in out.events

\* C13: a change of the combined button code to CANCEL puts buttonCancel in the events
C13_CancelPressRequestsDisable ==
  (Updated /\ cs.cruise_buttons = Buttons.CANCEL
           /\ cs.prev_cruise_buttons # Buttons.CANCEL)
    => "buttonCancel" \in out.events

\* C14: under mad mode the reported cruise enabled flag is the cruise available flag
\* and pedalPressed is not among the events handed to inject_events
C14_MadMode ==
  (Updated /\ cfg.mad_mode_enabled) =>
    /\ out.cruiseState_enabled = out.cruiseState_available
    /\ "pedalPressed" \notin out.handed

\* mad mode, pedalPressed among the common events, cruise available and not enabled
C14_Witness ==
  /\ Updated /\ cfg.mad_mode_enabled
  /\ "pedalPressed" \in cs.common_events
  /\ cs.cruise_available /\ ~cs.cruise_enabled
  /\ out.cruiseState_enabled

---------------------------------------------------------------------------
(* SpecHud: the hud codes in lkas11 over lanes, alerts and enablement *)

HudFrames == 2

HudConfigs ==
  {Config("SONATA", 90, 0, 0, FALSE, FALSE, FALSE, FALSE, FALSE),
   Config("GENESIS_G70", 90, 0, 0, FALSE, FALSE, FALSE, FALSE, FALSE)}

HudOuts == [vEgo : {Fast}, leftBlinker : {FALSE}, rightBlinker : {FALSE}]

\* some of car.CarControl.HUDControl.VisualAlert
VisualAlerts == {"none", "fcw", "steerRequired", "ldw"}

HudIns ==
  Inputs([enabled : BOOLEAN, visual_alert : VisualAlerts, left_lane : BOOLEAN,
          right_lane : BOOLEAN, left_lane_depart : BOOLEAN])

InitHud == \E c \in HudConfigs : InitWith(c)

HudUpdate == \E o \in HudOuts : CarInterfaceUpdate(o)

HudApply == frame < HudFrames /\ \E inp \in HudIns : CarInterfaceApply(inp)

NextHud == HudUpdate \/ HudApply

SpecHud == InitHud /\ [][NextHud]_vars

\* C15: the hud of every lkas11 sent depends on the arguments of the call alone:
\* warning iff the alert is steerRequired; display code 3 if (both lanes or warning)
\* and (enabled or warning), 4 if both lanes, no warning and not enabled, otherwise
\* 5 with the left lane, 6 with the right lane only, 1 with no lane
C15_HudCodes ==
  log.ran =>
    \A i \in Lkas11Sent :
      LET h == can_sends[i].hud
          a == log.in
          warning == (a.visual_alert = "steerRequired")
          both == a.left_lane /\ a.right_lane
      IN  /\ h.sys_warning = warning
          /\ h.sys_state =
               IF (both \/ warning) /\ (a.enabled \/ warning) THEN 3
               ELSE IF both /\ ~warning /\ ~a.enabled THEN 4
               ELSE IF a.left_lane THEN 5
               ELSE IF a.right_lane THEN 6
               ELSE 1

\* the second call, with both lanes, an alert other than steerRequired and not
\* enabled, shows 4
C15_Witness ==
  /\ log.ran /\ frame = 2
  /\ log.in.left_lane /\ log.in.right_lane /\ ~log.in.enabled
  /\ log.in.visual_alert = "fcw"
  /\ \E i \in Lkas11Sent : can_sends[i].hud.sys_state = 4

---------------------------------------------------------------------------
(* SpecBlinker: the blinker countdown run to its end *)

\* cycles SpecBlinker runs: a blinker cycle, the countdown and the cycles after it
BlinkFrames == 54

BlinkConfigs == {Config("SONATA", 90, 0, 0, FALSE, FALSE, FALSE, FALSE, FALSE)}

BlinkOuts == [vEgo : {Slow}, leftBlinker : BOOLEAN, rightBlinker : {FALSE}]

BlinkIns == Inputs([enabled : {TRUE}, steer : {100}])

InitBlink == \E c \in BlinkConfigs : InitWith(c)

BlinkUpdate == \E o \in BlinkOuts : CarInterfaceUpdate(o)

BlinkApply == frame < BlinkFrames /\ \E inp \in BlinkIns : CarInterfaceApply(inp)

NextBlink == BlinkUpdate \/ BlinkApply

SpecBlinker == InitBlink /\ [][NextBlink]_vars

\* the snapshot of the cycle has a blinker on
BlinkerOn == out.leftBlinker \/ out.rightBlinker

\* the torque of the cycle is 0 in every lkas11 and in apply_steer_last
SteerZero ==
  /\ apply_steer_last = 0
  /\ \A i \in Lkas11Sent : can_sends[i].steer = 0 /\ ~can_sends[i].active

\* C18: in a cycle that starts with a nonzero countdown, or has a blinker on, at a
\* speed below 2 km/h, the torque is 0; without a blinker the countdown goes down by
\* one while it is nonzero and stays at 0 once there
C18_BlinkerCountdown ==
  (log.ran /\ pc = "update") =>
    /\ ((log.timer_last # 0 \/ BlinkerOn) /\ 36 * out.vEgo < 2000) => SteerZero
    /\ (~BlinkerOn /\ log.timer_last > 0) => turning_signal_timer = log.timer_last - 1
    /\ (~BlinkerOn /\ log.timer_last = 0) => turning_signal_timer = 0
    /\ turning_signal_timer >= 0

\* a cycle without a blinker, in the middle of the countdown and below 2 km/h, whose
\* limiter asked for a torque
C18_Witness ==
  /\ log.ran /\ pc = "update"
  /\ ~BlinkerOn /\ log.timer_last = 20 /\ turning_signal_timer = 19
  /\ 36 * out.vEgo < 2000
  /\ log.in.enabled /\ log.limited # 0
  /\ SteerZero

\* C19: a blinker cycle sets the countdown to 50, so that below 2 km/h the torque is
\* 0 in the blinker cycle and in each of the 50 cycles after the last blinker cycle,
\* and steering is active again in the 51st
C19_FiftyFurtherCycles ==
  (log.ran /\ pc = "update" /\ 36 * out.vEgo < 2000) =>
    /\ hist.since_blinker \in 0..50 => SteerZero
    /\ (hist.since_blinker = 51 /\ log.in.enabled) => log.lkas_active

---------------------------------------------------------------------------
(* SpecResumeLive: the auto resume in a control loop that never stops.         *)
(* CarController.update reads the frame through frame == 0 and through frame   *)
(* modulo 2, 5, 16, 20 and 32 only, so the frame is held in 0..FoldPeriod and  *)
(* FoldPeriod + 1 is folded to 1, which has the same remainders.               *)

\* a common multiple of 2, 5, 16, 20 and 32
FoldPeriod == 160

LiveConfigs == {Config("SONATA", 90, 0, 0, FALSE, FALSE, FALSE, FALSE, FALSE)}

LiveOuts == [vEgo : {0}, leftBlinker : {FALSE}, rightBlinker : {FALSE}]

LiveIns ==
  Inputs([standstill : BOOLEAN, lead_distance : {0, 5}, smoother_active : BOOLEAN])

InitLive == \E c \in LiveConfigs : InitWith(c)

LiveUpdate == frame <= FoldPeriod /\ \E o \in LiveOuts : CarInterfaceUpdate(o)

LiveApply == \E inp \in LiveIns : CarInterfaceApply(inp)

\* frame FoldPeriod + 1 is held as frame 1
LiveFold ==
  /\ pc = "update"
  /\ frame = FoldPeriod + 1
  /\ frame' = 1
  /\ UNCHANGED <<pc, cfg, out, accel_steady, apply_steer_last, apply_accel_last,
                 steer_rate_limited, lkas11_cnt, scc12_cnt, resume_cnt,
                 last_lead_distance, resume_wait_timer, turning_signal_timer,
                 turning_indicator_alert, low_speed_alert, cs, controls, can_sends,
                 log, hist>>

NextLive == LiveUpdate \/ LiveApply \/ LiveFold

\* the control loop runs a cycle in every period
SpecResumeLive == InitLive /\ [][NextLive]_vars /\ WF_vars(NextLive)

\* the last cycle was at standstill with the smoother inactive and a lead distance
\* other than the one of the first standstill cycle
StandingWithOtherLead ==
  /\ log.ran /\ log.in.standstill /\ ~log.in.smoother_active
  /\ log.in.lead_distance # hist.first_lead

\* C20: if from some cycle on the vehicle is at standstill, the smoother inactive and
\* the lead distance other than that of the first standstill cycle, a resume press
\* is emitted in that standstill episode; the first standstill cycle emits no press;
\* after a cycle that is not at standstill the baseline is 0
C20_ResumeEventually ==
  /\ (<>[]StandingWithOtherLead) => <>[]hist.episode_pressed
  /\ [](log.first => ~log.press)
  /\ []((log.ran /\ ~log.in.standstill) => last_lead_distance = 0)

---------------------------------------------------------------------------
(* SpecLowSpeed: the low speed alert latch over speeds around minSteerSpeed *)

LowSpeedFrames == 3

\* CP.minSteerSpeed in 1/100 m/s: 0, exactly 10 m/s, 15 m/s
MinSteerSpeeds == {0, 1000, 1500}

LowSpeedConfigs ==
  {Override(Config("SONATA", 90, 0, 0, FALSE, FALSE, FALSE, FALSE, FALSE),
            [minSteerSpeed |-> m]) : m \in MinSteerSpeeds}

\* speeds below, on the edges of, inside and above the band of each minSteerSpeed
LowSpeeds == {10, 1010, 1050, 1510, 1520, 1550, 1570, 1580}

LowSpeedStates == [vEgo : LowSpeeds]

LowSpeedIns == Inputs([enabled : {TRUE}])

InitLowSpeed == \E c \in LowSpeedConfigs : InitWith(c)

LowSpeedUpdate ==
  frame < LowSpeedFrames /\ \E o \in LowSpeedStates : CarInterfaceUpdate(o)

LowSpeedApply == \E inp \in LowSpeedIns : CarInterfaceApply(inp)

NextLowSpeed == LowSpeedUpdate \/ LowSpeedApply

SpecLowSpeed == InitLowSpeed /\ [][NextLowSpeed]_vars

\* C21: a CarInterface.update with speed v leaves the latch true if
\* v < minSteerSpeed + 0.2 and minSteerSpeed > 10, false if v > minSteerSpeed + 0.7,
\* and as it was for v in between; with minSteerSpeed <= 10 the latch is never true
C21_LowSpeedLatch ==
  [][(pc = "update") =>
       LET v == cs'.vEgo
           m == cfg.minSteerSpeed
       IN  /\ (v < m + 20 /\ m > 1000) => low_speed_alert'
           /\ v > m + 70 => ~low_speed_alert'
           /\ (v >= m + 20 /\ v <= m + 70) => low_speed_alert' = low_speed_alert
           /\ m <= 1000 => ~low_speed_alert']_vars

\* the latch is still true after a cycle whose speed is inside the band, and the
\* belowSteerSpeed event is raised
C21_Witness ==
  /\ pc = "apply"
  /\ cfg.minSteerSpeed = 1500 /\ cs.vEgo = 1550
  /\ low_speed_alert
  /\ "belowSteerSpeed" \in out.events

---------------------------------------------------------------------------
\* C22 (under SpecButtons): with longcontrol on and scc not live the events handed
\* on hold neither wrongCarMode nor pcmDisable, in every cycle
C22_ModeEventsCleared ==
  (Updated /\ cfg.longcontrol /\ ~cfg.scc_live) =>
    /\ "wrongCarMode" \notin out.handed
    /\ "pcmDisable" \notin out.handed

---------------------------------------------------------------------------
(* SpecEdges: button codes from cycle to cycle; CarState.update keeps the code *)
(* of the cycle before in prev_cruise_buttons and prev_cruise_main_button      *)

EdgeFrames == 3

EdgeConfigs ==
  {Config("SONATA", 90, 0, -1, TRUE, FALSE, FALSE, FALSE, FALSE),
   Config("SONATA", 90, 0, 0, FALSE, FALSE, FALSE, FALSE, FALSE)}

EdgeStates ==
  [vEgo : {Fast}, cruise_buttons : ButtonCodes, prev_cruise_buttons : ButtonCodes,
   cruise_main_button : {0, 1}, prev_cruise_main_button : {0, 1},
   cruise_enabled : BOOLEAN]

EdgeIns == Inputs([enabled : {TRUE}])

InitEdges == \E c \in EdgeConfigs : InitWith(c)

EdgeUpdate ==
  /\ frame < EdgeFrames
  /\ \E o \in EdgeStates :
       /\ o.prev_cruise_buttons = cs.cruise_buttons
       /\ o.prev_cruise_main_button = cs.cruise_main_button
       /\ CarInterfaceUpdate(o)

EdgeApply == \E inp \in EdgeIns : CarInterfaceApply(inp)

NextEdges == EdgeUpdate \/ EdgeApply

SpecEdges == InitEdges /\ [][NextEdges]_vars

\* the button events of the combined cruise button code
CombinedEvents ==
  {i \in 1..Len(out.buttonEvents) : out.buttonEvents[i].type # "altButton3"}

\* C23: there is one event of the combined button code when the code differs from
\* that of the cycle before and none otherwise; pressed tells whether the new code is
\* non-zero; a change between two non-zero codes gives one pressed event of the new
\* code's type and no buttonEnable
C23_OneEventPerEdge ==
  Updated =>
    LET cur == cs.cruise_buttons
        prev == cs.prev_cruise_buttons
    IN  /\ Cardinality(CombinedEvents) = IF cur # prev THEN 1 ELSE 0
        /\ \A i \in CombinedEvents : out.buttonEvents[i].pressed = (cur # 0)
        /\ (cur # 0 /\ prev # 0 /\ cur # prev) =>
             /\ \A i \in CombinedEvents :
                  /\ out.buttonEvents[i].pressed
                  /\ out.buttonEvents[i].type =
                       IF cur = 1 THEN "accelCruise"
                       ELSE IF cur = 2 THEN "decelCruise"
                       ELSE IF cur = 3 THEN "gapAdjustCruise"
                       ELSE "unknown"
             /\ "buttonEnable" \notin out.handed

\* SET_DECEL was held in the cycle before and RES_ACCEL is held now, with longcontrol
\* on and scc not live
C23_Witness ==
  /\ Updated /\ frame = 1
  /\ cs.prev_cruise_buttons = Buttons.SET_DECEL /\ cs.cruise_buttons = Buttons.RES_ACCEL
  /\ cfg.longcontrol /\ ~cfg.scc_live
  /\ Len(out.buttonEvents) = 1

---------------------------------------------------------------------------
(* SpecGate: the torque ramped up to STEER_MAX, gated off and let on again *)

\* cycles SpecGate runs: 137 to ramp from 0 to 409 by 3, then the gate
GateFrames == 140

GateConfigs == {Config("SONATA", 90, 0, 0, FALSE, FALSE, FALSE, FALSE, FALSE)}

GateOuts == [vEgo : {Fast}, leftBlinker : {FALSE}, rightBlinker : {FALSE}]

\* the requests: full left at any time, beyond full right from a stored torque of 0
GateIns(last) ==
  Inputs([enabled : BOOLEAN, steer : IF last = 0 THEN {100, -150} ELSE {100}])

InitGate == \E c \in GateConfigs : InitWith(c)

GateUpdate == \E o \in GateOuts : CarInterfaceUpdate(o)

GateApply ==
  frame < GateFrames /\ \E inp \in GateIns(apply_steer_last) : CarInterfaceApply(inp)

NextGate == GateUpdate \/ GateApply

SpecGate == InitGate /\ [][NextGate]_vars

\* C24: a cycle whose gate disabled steering stores 0 as the previous applied torque
\* and sends 0; a cycle whose gate permits steering right after one that did not
\* sends a torque of magnitude at most 3
C24_RiseFromZero ==
  log.ran =>
    /\ ~log.lkas_active =>
         (apply_steer_last = 0 /\ \A i \in Lkas11Sent : can_sends[i].steer = 0)
    /\ (log.gated_before /\ log.lkas_active) =>
         /\ log.steer_last = 0
         /\ apply_steer_last >= -3 /\ apply_steer_last <= 3
         /\ \A i \in Lkas11Sent : can_sends[i].steer = apply_steer_last

\* the torque dropped from 409 to 0 in one cycle while the limiter gave 409
C24_Witness ==
  /\ log.ran /\ ~log.lkas_active
  /\ log.steer_last = 409 /\ log.limited = 409
  /\ apply_steer_last = 0

====
